---- MODULE Spec2Model ----
(***************************************************************************)
(* FreedomNames: a node of a peer-to-peer name directory.                  *)
(*                                                                         *)
(* The module models                                                       *)
(*   - the record validator (FreedomNameValidator) as pure operators,      *)
(*   - the HTTP handlers AddHandler / LookupHandler over the local cache   *)
(*     and the distributed store (kadDHT),                                 *)
(*   - the node lifecycle: main, NewNode, Shutdown, eventLoop, statsLoop,  *)
(*   - the bounded local cache (MemoryCache over an LRU list).             *)
(*                                                                         *)
(* Strings are sequences of bytes (naturals below 256), so that string     *)
(* functions (SplitKey, utf8.ValidString, JSON string decoding) are        *)
(* computed the way the code computes them.                                *)
(***************************************************************************)
EXTENDS Naturals, Sequences, FiniteSets

VARIABLES
    \* --- record validator, called as a pure function --------------------
    vKey,       \* the key handed to Validate
    vValue,     \* the value handed to Validate
    vResult,    \* "pending" before the call, then Validate's result
    sVals,      \* the candidate values handed to Select
    sResults,   \* what the calls of Select so far returned, in order
    \* --- HTTP handlers ---------------------------------------------------
    cache,      \* MemoryCache.store: a map name -> value
    store,      \* the records of the distributed store, by DHT key
    req,        \* per handler goroutine: the request it serves and its position
    last,       \* the most recently completed request, or NoRequest
    mu,         \* MemoryCache.mu: the handlers holding the RWMutex
    \* --- node lifecycle --------------------------------------------------
    mainPc,     \* position of main()
    node,       \* the FreedomNameNode value: kadDHT, its host, what was closed
    ctx,        \* cancellation scopes: main's ctx and the node's derived ctx
    loops,      \* position of eventLoop and statsLoop
    sub,        \* eventLoop's subscription to the event bus
    ticks,      \* stats samples logged so far
    acc,        \* the last introspection accessor called and what it returned
    startup,    \* history: the steps of NewNode that succeeded, and a failure
    shut,       \* history: the Close calls of Shutdown and their errors
    \* --- bounded local cache ---------------------------------------------
    lru,        \* the entries of the LRU list, front first
    touched,    \* history: the cached keys, most recently accessed first
    inserted,   \* history: the cached keys, most recently inserted first
    lruOp,      \* the last cache operation and what it returned
    \* --- event handlers --------------------------------------------------
    conn,       \* the host's connectedness to each peer
    peerstore,  \* the peers the host's peer store holds metadata of
    events,     \* the events eventLoop has received, in order
    ran,        \* the received events whose handler goroutine has run
    evLog,      \* what the handler goroutines logged: event index, line
    \* --- node identity ---------------------------------------------------
    keyFile,    \* the content of private.key, or "absent"
    keyLog      \* history: the calls of loadOrGenerateKey, one per start

vars == <<vKey, vValue, vResult, sVals, sResults, cache, store, req, last, mu,
          mainPc, node, ctx, loops, sub, ticks, acc, startup, shut,
          lru, touched, inserted, lruOp,
          conn, peerstore, events, ran, evLog, keyFile, keyLog>>

validatorVars == <<vKey, vValue, vResult>>
selectVars == <<sVals, sResults>>
lruVars == <<lru, touched, inserted, lruOp>>
\* the components that are exercised on their own
eventVars == <<conn, peerstore, events, ran, evLog>>
keyVars == <<keyFile, keyLog>>
unitVars == <<validatorVars, selectVars, lruVars, eventVars, keyVars>>
httpVars == <<cache, store, req, last, mu>>
histVars == <<startup, shut>>
nodeVars == <<mainPc, node, ctx, loops, sub, ticks, acc, histVars>>

----------------------------------------------------------------------------
(* Bytes and strings *)

\* the byte "/"
Slash == 47

\* U+FFFD, the replacement character, in UTF-8
ReplacementChar == <<239, 191, 189>>

\* sequences over S of length at most n
RECURSIVE SeqsUpTo(_, _)
SeqsUpTo(S, n) ==
    IF n = 0 THEN {<< >>}
    ELSE LET shorter == SeqsUpTo(S, n - 1)
         IN shorter \cup {Append(s, b) : s \in {t \in shorter : Len(t) = n - 1}, b \in S}

\* strings.IndexByte, 1-based; 0 when b does not occur
RECURSIVE IndexByteFrom(_, _, _)
IndexByteFrom(s, b, i) ==
    IF i > Len(s) THEN 0
    ELSE IF s[i] = b THEN i
    ELSE IndexByteFrom(s, b, i + 1)

IndexByte(s, b) == IndexByteFrom(s, b, 1)

IsCont(b) == b >= 128 /\ b <= 191

\* the number of bytes of the UTF-8 encoding that starts at s[i]; 0 when
\* the bytes at s[i] are no valid encoding (utf8's first / acceptRanges)
RuneLen(s, i) ==
    LET b == s[i]
        has(k) == i + k <= Len(s)
        lo2 == IF b = 224 THEN 160 ELSE IF b = 240 THEN 144 ELSE 128
        hi2 == IF b = 237 THEN 159 ELSE IF b = 244 THEN 143 ELSE 191
        second == has(1) /\ s[i + 1] >= lo2 /\ s[i + 1] <= hi2
    IN  IF b < 128 THEN 1
        ELSE IF b >= 194 /\ b <= 223 THEN (IF second THEN 2 ELSE 0)
        ELSE IF b >= 224 /\ b <= 239
             THEN (IF second /\ has(2) /\ IsCont(s[i + 2]) THEN 3 ELSE 0)
        ELSE IF b >= 240 /\ b <= 244
             THEN (IF second /\ has(3) /\ IsCont(s[i + 2]) /\ IsCont(s[i + 3])
                   THEN 4 ELSE 0)
        ELSE 0

RECURSIVE ValidFrom(_, _)
ValidFrom(s, i) ==
    IF i > Len(s) THEN TRUE
    ELSE LET n == RuneLen(s, i)
         IN IF n = 0 THEN FALSE ELSE ValidFrom(s, i + n)

\* utf8.ValidString
ValidString(s) == ValidFrom(s, 1)

----------------------------------------------------------------------------
(* Record validator *)

ErrInvalidRecordType == "invalid record keytype"
ErrNamespace == "namespace not 'fn'"
ErrNotUTF8 == "key is not valid UTF-8"
Accepted == "nil"

\* record.SplitKey: "/ns/rest" -> (ns, rest); an error when the key does not
\* start with "/" or holds no second "/" after a non-empty namespace
SplitKey(key) ==
    IF Len(key) = 0 \/ key[1] # Slash
    THEN [err |-> TRUE, ns |-> << >>, key |-> << >>]
    ELSE LET k == Tail(key)
             i == IndexByte(k, Slash)
         IN IF i <= 1
            THEN [err |-> TRUE, ns |-> << >>, key |-> << >>]
            ELSE [err |-> FALSE,
                  ns |-> SubSeq(k, 1, i - 1),
                  key |-> SubSeq(k, i + 1, Len(k))]

\* the namespace tag "fn"
NamespaceFn == <<102, 110>>

\* a validator that also accepts foreign namespaces (mutant of Validate)
ValidateAnyNamespace(key, value) ==
    LET sp == SplitKey(key)
    IN  IF sp.err THEN ErrInvalidRecordType
        ELSE IF ~ValidString(sp.key) THEN ErrNotUTF8
        ELSE Accepted

\* FreedomNameValidator.Validate: the error it returns, or Accepted
Validate(key, value) ==
    LET sp == SplitKey(key)
    IN  IF sp.err THEN ErrInvalidRecordType
        ELSE IF sp.ns # NamespaceFn THEN ErrNamespace
        ELSE IF ~ValidString(sp.key) THEN ErrNotUTF8
        ELSE Accepted

----------------------------------------------------------------------------
(* The validator as a pure function: inputs drawn in Init, one call *)

\* longest key handed to Validate
MaxKeyLen == 6

\* "/", "f", "n", and the two bytes of U+00E9 (0xC3 0xA9), each of which is
\* invalid UTF-8 when it stands alone
KeyBytes == {Slash, 102, 110, 195, 169}

ValidatorKeys == SeqsUpTo(KeyBytes, MaxKeyLen)

\* the empty value, "1", and a value that is not UTF-8
ValidatorValues == {<< >>, <<49>>, <<255>>}

\* a Select that prefers the newest candidate (mutant of Select)
SelectNewest(k, vals) == [index |-> Len(vals), err |-> "nil"]

\* FreedomNameValidator.Select
Select(k, vals) == [index |-> 0, err |-> "nil"]

\* most candidates handed to Select, and most calls with the same arguments
MaxCandidates == 3
MaxSelectCalls == 2

\* keys with and without a namespace, "fn" among them
SelectKeys == SeqsUpTo(KeyBytes, 4)

SelectCandidates == SeqsUpTo(ValidatorValues, MaxCandidates)

SelectIdle ==
    /\ sVals = << >>
    /\ sResults = << >>

ValidatorIdle ==
    /\ vKey = << >>
    /\ vValue = << >>
    /\ vResult = "idle"
    /\ SelectIdle

\* Select(vKey, sVals) is called
SelectCall ==
    /\ Len(sResults) < MaxSelectCalls
    /\ sResults' = Append(sResults, Select(vKey, sVals))
    /\ UNCHANGED <<vKey, vValue, vResult, sVals>>

ValidateCall ==
    /\ vResult = "pending"
    /\ vResult' = Validate(vKey, vValue)
    /\ UNCHANGED <<vKey, vValue, selectVars>>

----------------------------------------------------------------------------
(* The node value and the store calls it offers *)

\* the FreedomNameNode once NewNode has returned it
RunningNode ==
    [kadDHT |-> "dht", host |-> "host", hostClosed |-> FALSE, dhtClosed |-> FALSE]

\* before NewNode returns there is no node value
NoNode ==
    [kadDHT |-> "nil", host |-> "nil", hostClosed |-> FALSE, dhtClosed |-> FALSE]

\* an IsInitialized that always answers true (mutant of IsInitialized)
IsInitializedAlways == TRUE

\* FreedomNameNode.IsInitialized
IsInitialized == node.kadDHT # "nil" /\ node.host # "nil"

\* the parent of the context PutValue / GetValue hand to the store call
StoreCallScope == "background"

\* a key under the root, without the namespace (mutant of DhtKey)
DhtKeyUnderRoot(key) == <<Slash>> \o key

\* "/fn/" + key
DhtKey(key) == <<Slash>> \o NamespaceFn \o <<Slash>> \o key

\* m[k] = v, added or overwritten
MapSet(m, k, v) == [x \in (DOMAIN m) \cup {k} |-> IF x = k THEN v ELSE m[x]]

\* MemoryCache.Set
CacheSet(c, key, value) == MapSet(c, key, value)

\* MemoryCache.Get: (value, found)
CacheGet(c, key) ==
    IF key \in DOMAIN c THEN [value |-> c[key], found |-> TRUE]
    ELSE [value |-> << >>, found |-> FALSE]

\* what json.Unmarshal / json.Marshal make of the bytes of a string: every
\* byte that starts no valid UTF-8 encoding becomes U+FFFD
RECURSIVE JSONStringFrom(_, _)
JSONStringFrom(s, i) ==
    IF i > Len(s) THEN << >>
    ELSE LET n == RuneLen(s, i)
         IN IF n = 0 THEN ReplacementChar \o JSONStringFrom(s, i + 1)
            ELSE SubSeq(s, i, i + n - 1) \o JSONStringFrom(s, i + n)

JSONString(s) == JSONStringFrom(s, 1)

----------------------------------------------------------------------------
(* HTTP requests *)

\* most name/value pairs in one write request
MaxBatch == 3

\* handler goroutines
Handlers == {1, 2}

\* names and values as the bytes of the request: "", "a", and 0xFF
RawNames == {<< >>, <<97>>, <<255>>}
\* "" and "1"
RawValues == {<< >>, <<49>>}

\* the names and values json.Unmarshal hands to AddHandler
Names == {JSONString(r) : r \in RawNames}
Values == {JSONString(r) : r \in RawValues}

\* the key query parameter, percent-decoded: any bytes
QueryKeys == RawNames \cup Names

\* one record of one name of a write request
Pairs == [name : Names, value : Values]

Methods == {"POST", "GET"}

\* io.ReadAll fails, json.Unmarshal fails, or neither
BodyErrors == {"none", "unreadable", "invalid"}

NoRequest == [op |-> "none", name |-> << >>, value |-> << >>]

NoPair == [name |-> << >>, value |-> << >>]

\* dhtKey: the key last handed to the store;
\* total, remaining: the pairs of the decoded body, and how many of them the
\* range loops have still to visit; cur: the pair the loops are at;
\* applied: the names written so far, each with the value last written
IdleReq ==
    [kind |-> "idle", pc |-> "idle", total |-> 0, remaining |-> 0,
     cur |-> NoPair, applied |-> << >>,
     key |-> << >>, got |-> << >>, status |-> 0, body |-> << >>,
     reqDone |-> FALSE, callCtx |-> "none", storeCalls |-> 0,
     callErr |-> "none", validated |-> FALSE, after |-> NoRequest,
     error |-> "", cacheReads |-> 0, accessorCalls |-> 0, dhtKey |-> << >>]

Active(h) == req[h].pc \notin {"idle", "done"}

\* no handler other than h is serving a request
Quiescent(h) == \A g \in Handlers \ {h} : ~Active(g)

\* the response is written and the handler returns; net/http then cancels
\* the request's context
Respond(r, status, body) ==
    [r EXCEPT !.pc = "done", !.status = status, !.body = body,
              !.reqDone = TRUE]

\* http.Error(w, msg, status) and return
Fail(r, status, msg) == [Respond(r, status, << >>) EXCEPT !.error = msg]

NotInitialized == "DHT not initialized"

\* records the store may hold when the node joins: written by other nodes,
\* each accepted by the validator
StoreKeys == {k \in {DhtKey(n) : n \in QueryKeys} : Validate(k, << >>) = Accepted}

InitialStores ==
    UNION {[D -> Values] : D \in SUBSET StoreKeys}

----------------------------------------------------------------------------
(* AddHandler *)

\* a request arrives: the readiness gate, the method check, the body, which
\* decodes to n name/value pairs
AddBegin(h, method, bodyErr, n) ==
    /\ ~Active(h)
    /\ (method # "POST" \/ bodyErr # "none") => n = 0
    /\ LET fresh == [IdleReq EXCEPT !.kind = "add"]
       IN req' = [req EXCEPT ![h] =
            IF ~IsInitialized THEN Fail(fresh, 500, NotInitialized)
            ELSE IF method # "POST" THEN Fail(fresh, 405, "Only POST allowed")
            ELSE IF bodyErr = "unreadable"
                 THEN Fail(fresh, 400, "Failed to read request body")
            ELSE IF bodyErr # "none" THEN Fail(fresh, 400, "Invalid request body")
            ELSE IF n = 0 THEN Respond(fresh, 200, << >>)
            ELSE [fresh EXCEPT !.pc = "cacheSet", !.total = n, !.remaining = n]]
    /\ last' = NoRequest
    /\ UNCHANGED <<cache, store>>

\* the range loops yield the next pair p, in the unspecified order of Go's
\* maps: another record of the name the loops are at, or a record of a name
\* not visited yet; cache.Set(key, value)
AddCacheSet(h, p) ==
    /\ req[h].kind = "add"
    /\ req[h].pc = "cacheSet"
    /\ p.name = req[h].cur.name \/ p.name \notin DOMAIN req[h].applied
    /\ cache' = CacheSet(cache, p.name, p.value)
    /\ req' = [req EXCEPT ![h].pc = "putValue", ![h].cur = p,
                          ![h].validated = FALSE]
    /\ last' = NoRequest
    /\ UNCHANGED store

\* freedomDht.PutValue(dhtKey, value) is called: without a DHT it fails at
\* once; kadDHT.PutValue first runs the validator and fails at once when the
\* record is rejected; otherwise the write goes out to the network
AddPutValue(h) ==
    /\ req[h].kind = "add"
    /\ req[h].pc = "putValue"
    /\ LET p == req[h].cur
           r == [req[h] EXCEPT !.dhtKey = DhtKey(p.name)]
       IN /\ req' = [req EXCEPT ![h] =
                IF node.kadDHT = "nil"
                THEN [Fail(r, 500, "Failed to store value in DHT")
                        EXCEPT !.callErr = "err"]
                ELSE IF Validate(r.dhtKey, p.value) # Accepted
                     THEN [Fail(r, 500, "Failed to store value in DHT")
                             EXCEPT !.callCtx = "cancelled", !.callErr = "err"]
                ELSE [r EXCEPT !.pc = "putInFlight", !.callCtx = "live",
                               !.validated = TRUE,
                               !.storeCalls = r.storeCalls + 1]]
          /\ last' = IF req'[h].callErr = "err"
                     THEN [op |-> "putFailed", name |-> p.name, value |-> p.value]
                     ELSE NoRequest
    /\ UNCHANGED <<cache, store>>

\* a handler that goes on with the next pair after a failed write (mutant
\* of AddAfterPut)
AddAfterPutIgnoreError(r, ok) ==
    LET done == [r EXCEPT !.remaining = r.remaining - 1,
                          !.applied = MapSet(r.applied, r.cur.name, r.cur.value)]
    IN  IF done.remaining = 0 THEN Respond(done, 200, << >>)
        ELSE [done EXCEPT !.pc = "cacheSet"]

\* AddHandler once PutValue has returned: an error ends the request with
\* status 500; otherwise the loops go on, and after the last pair the
\* response is 200
AddAfterPut(r, ok) ==
    LET done == [r EXCEPT !.remaining = r.remaining - 1,
                          !.applied = MapSet(r.applied, r.cur.name, r.cur.value)]
    IN  IF ~ok THEN Fail(r, 500, "Failed to store value in DHT")
        ELSE IF done.remaining = 0 THEN Respond(done, 200, << >>)
        ELSE [done EXCEPT !.pc = "cacheSet"]

\* kadDHT.PutValue returns. ok: the record is stored. Otherwise an error is
\* returned, and the record may (stored) or may not have reached a peer.
AddPutReturn(h, ok, stored) ==
    /\ req[h].kind = "add"
    /\ req[h].pc = "putInFlight"
    /\ ok => (stored /\ ~node.hostClosed /\ ~node.dhtClosed
                     /\ req[h].callCtx = "live")
    /\ LET p == req[h].cur
           r == [req[h] EXCEPT !.callCtx = "cancelled",
                               !.callErr = IF ok THEN "nil" ELSE "err"]
       IN /\ store' = IF stored THEN MapSet(store, req[h].dhtKey, p.value)
                      ELSE store
          /\ req' = [req EXCEPT ![h] = AddAfterPut(r, ok)]
          /\ last' = IF ~ok
                     THEN [op |-> "putFailed", name |-> p.name, value |-> p.value]
                     ELSE IF r.total = 1
                     THEN [op |-> "added", name |-> p.name, value |-> p.value]
                     ELSE NoRequest
    /\ UNCHANGED cache

----------------------------------------------------------------------------
(* LookupHandler *)

\* a request arrives: the readiness gate, the key parameter, the cache; on a
\* miss freedomDht.GetValue(dhtKey) is called
LookupBegin(h, key) ==
    /\ ~Active(h)
    /\ LET fresh == [IdleReq EXCEPT !.kind = "lookup", !.key = key,
                        !.after = IF Quiescent(h) THEN last ELSE NoRequest]
           hit == CacheGet(cache, key)
       IN req' = [req EXCEPT ![h] =
            IF ~IsInitialized THEN Fail(fresh, 500, NotInitialized)
            ELSE IF key = << >> THEN Fail(fresh, 400, "Missing key parameter")
            ELSE IF hit.found
                 THEN Respond([fresh EXCEPT !.cacheReads = 1], 200,
                              JSONString(hit.value))
            ELSE IF node.kadDHT = "nil"
                 THEN [Fail(fresh, 500, "Failed to retrieve value from DHT")
                         EXCEPT !.callErr = "err", !.cacheReads = 1,
                                !.dhtKey = DhtKey(key)]
            ELSE [fresh EXCEPT !.pc = "getInFlight", !.callCtx = "live",
                               !.storeCalls = 1, !.cacheReads = 1,
                               !.dhtKey = DhtKey(key)]]
    /\ last' = NoRequest
    /\ UNCHANGED <<cache, store>>

\* the earlier handler's test, which takes every value but "" for a missing
\* key (mutant of KeyNotFound)
KeyNotFoundInverted(value) == value # << >>

\* LookupHandler: value == "" stands for "Key not found"
KeyNotFound(value) == value = << >>

\* a LookupHandler that takes an error of GetValue for a missing key and
\* remembers the miss in the cache (mutant of LookupGetReturn)
LookupGetReturnErrorAsMiss(h, ok) ==
    /\ req[h].kind = "lookup"
    /\ req[h].pc = "getInFlight"
    /\ ok => (req[h].dhtKey \in DOMAIN store
                /\ ~node.hostClosed /\ ~node.dhtClosed
                /\ req[h].callCtx = "live")
    /\ LET r == [req[h] EXCEPT !.callCtx = "cancelled",
                               !.callErr = IF ok THEN "nil" ELSE "err"]
           value == store[r.dhtKey]
       IN req' = [req EXCEPT ![h] =
            IF ~ok \/ KeyNotFound(value)
            THEN Fail(r, 404, "Key not found")
            ELSE [r EXCEPT !.pc = "fill", !.got = value]]
    /\ cache' = IF ok THEN cache ELSE CacheSet(cache, req[h].key, << >>)
    /\ last' = NoRequest
    /\ UNCHANGED store

\* kadDHT.GetValue returns: an error (also when the store holds no record
\* for the key), or the bytes of the record
LookupGetReturn(h, ok) ==
    /\ req[h].kind = "lookup"
    /\ req[h].pc = "getInFlight"
    /\ ok => (req[h].dhtKey \in DOMAIN store
                /\ ~node.hostClosed /\ ~node.dhtClosed
                /\ req[h].callCtx = "live")
    /\ LET r == [req[h] EXCEPT !.callCtx = "cancelled",
                               !.callErr = IF ok THEN "nil" ELSE "err"]
           value == store[r.dhtKey]
       IN req' = [req EXCEPT ![h] =
            IF ~ok THEN Fail(r, 500, "Failed to retrieve value from DHT")
            ELSE IF KeyNotFound(value)
                 THEN Fail([r EXCEPT !.got = value], 404, "Key not found")
            ELSE [r EXCEPT !.pc = "fill", !.got = value]]
    /\ last' = NoRequest
    /\ UNCHANGED <<cache, store>>

\* a LookupHandler that answers without filling the cache (mutant of
\* LookupFill)
LookupFillNoCache(h) ==
    /\ req[h].kind = "lookup"
    /\ req[h].pc = "fill"
    /\ req' = [req EXCEPT ![h] = Respond(req[h], 200, JSONString(req[h].got))]
    /\ last' = [op |-> "resolved", name |-> req[h].key, value |-> req[h].got]
    /\ UNCHANGED <<cache, store>>

\* cache.Set(key, value), then the response
LookupFill(h) ==
    /\ req[h].kind = "lookup"
    /\ req[h].pc = "fill"
    /\ cache' = CacheSet(cache, req[h].key, req[h].got)
    /\ req' = [req EXCEPT ![h] = Respond(req[h], 200, JSONString(req[h].got))]
    /\ last' = [op |-> "resolved", name |-> req[h].key, value |-> req[h].got]
    /\ UNCHANGED store

\* the client goes away while its request is being served: the request's
\* context is cancelled, and with it every context derived from it
RequestAbort(h) ==
    /\ Active(h)
    /\ ~req[h].reqDone
    /\ req' = [req EXCEPT ![h].reqDone = TRUE,
                          ![h].callCtx =
                              IF StoreCallScope = "request" /\ @ = "live"
                              THEN "cancelled" ELSE @]
    /\ UNCHANGED <<cache, store, last>>

----------------------------------------------------------------------------
(* MemoryCache.mu, a sync.RWMutex *)

Unlocked == [readers |-> {}, writer |-> {}]

\* the goroutines inside a method of the cache
Holders(m) == m.readers \cup m.writer

\* a Lock that never waits (mutant of CanLock)
CanLockAlways(m) == TRUE

\* c.mu.RLock() goes through while no goroutine holds the write lock
CanRLock(m) == m.writer = {}

\* c.mu.Lock() goes through while no goroutine holds the lock at all
CanLock(m) == m.writer = {} /\ m.readers = {}

RLock(m, h) == [m EXCEPT !.readers = @ \cup {h}]

Lock(m, h) == [m EXCEPT !.writer = @ \cup {h}]

\* the deferred c.mu.RUnlock()
RUnlock(m, h) == [m EXCEPT !.readers = @ \ {h}]

\* the deferred c.mu.Unlock()
Unlock(m, h) == [m EXCEPT !.writer = @ \ {h}]

\* a lookup request has come to cache.Get: Get takes the read lock
CacheRLock(h) ==
    /\ ~Active(h)
    /\ IsInitialized
    /\ h \notin Holders(mu)
    /\ CanRLock(mu)
    /\ mu' = RLock(mu, h)
    /\ UNCHANGED <<cache, store, req, last>>

\* Get reads the map, releases the lock, and LookupHandler goes on
LockedGet(h, key) ==
    /\ h \in mu.readers
    /\ key # << >>
    /\ LookupBegin(h, key)
    /\ mu' = RUnlock(mu, h)

\* a handler has come to cache.Set: Set takes the write lock
CacheLock(h) ==
    /\ req[h].pc \in {"cacheSet", "fill"}
    /\ h \notin Holders(mu)
    /\ CanLock(mu)
    /\ mu' = Lock(mu, h)
    /\ UNCHANGED <<cache, store, req, last>>

\* Set writes the map for AddHandler and releases the lock
LockedAddSet(h, p) ==
    /\ h \in mu.writer
    /\ AddCacheSet(h, p)
    /\ mu' = Unlock(mu, h)

\* Set writes the map for LookupHandler and releases the lock
LockedFill(h) ==
    /\ h \in mu.writer
    /\ LookupFill(h)
    /\ mu' = Unlock(mu, h)

----------------------------------------------------------------------------
(* AllPeersHandler, InfoHandler *)

\* AllPeersHandler: the readiness gate, then GetRoutingPeers and
\* GetNetworkPeers, whose lists are the response
AllPeersRequest(h) ==
    /\ ~Active(h)
    /\ LET fresh == [IdleReq EXCEPT !.kind = "peers"]
       IN req' = [req EXCEPT ![h] =
            IF ~IsInitialized THEN Fail(fresh, 500, NotInitialized)
            ELSE Respond([fresh EXCEPT !.accessorCalls = 2], 200,
                         JSONString(<<>>))]
    /\ last' = NoRequest
    /\ UNCHANGED <<cache, store>>

\* InfoHandler: the readiness gate, then GetMode, GetPeerID,
\* GetListenAddresses, GetNetworkPeers, GetNetworkSize (an error counts as
\* size 0), GetPeerInfos, GetProtocols, whose values are the response
InfoRequest(h) ==
    /\ ~Active(h)
    /\ LET fresh == [IdleReq EXCEPT !.kind = "info"]
       IN req' = [req EXCEPT ![h] =
            IF ~IsInitialized THEN Fail(fresh, 500, NotInitialized)
            ELSE Respond([fresh EXCEPT !.accessorCalls = 7], 200,
                         JSONString(<<>>))]
    /\ last' = NoRequest
    /\ UNCHANGED <<cache, store>>

----------------------------------------------------------------------------
(* main, NewNode, Shutdown *)

\* stats samples and events the model follows
MaxTicks == 2
MaxEvents == 2

\* Shutdown has not been called
NoShutdown ==
    [calls |-> << >>, failed |-> {}, logged |-> {}, propagated |-> FALSE,
     returned |-> FALSE, inFlight |-> {}]

\* the steps of NewNode, in order; each may fail, and NewNode then panics
StartupSteps == <<"loadKey", "newHost", "mdns", "newDHT", "bootstrap">>

StepAfter(pc) ==
    LET i == CHOOSE k \in 1..Len(StartupSteps) : StartupSteps[k] = pc
    IN IF i = Len(StartupSteps) THEN "spawn" ELSE StartupSteps[i + 1]

InNewNode == mainPc \in {StartupSteps[k] : k \in 1..Len(StartupSteps)} \cup {"spawn"}

\* the lifecycle state the position of main stands for
Lifecycle ==
    IF mainPc = "start" THEN "Uninitialized"
    ELSE IF InNewNode THEN "Starting"
    ELSE IF mainPc \in {"newCache", "serving", "httpShutdown"} THEN "Running"
    ELSE IF mainPc \in {"closeHost", "closeDHT"} THEN "ShuttingDown"
    ELSE "Stopped"

\* the process is gone: main has returned, os.Exit was called, or a
\* goroutine panicked
ProcessGone == mainPc \in {"exited", "crashed"}

\* main: ctx, cancel := context.WithCancel(...); defer cancel(); NewNode(ctx)
MainStart ==
    /\ mainPc = "start"
    /\ mainPc' = "loadKey"
    /\ UNCHANGED <<node, ctx, loops, sub, ticks, histVars>>

\* a NewNode that goes on after a failed step (mutant of NewNodeStep)
NewNodeStepIgnoreError(ok) ==
    /\ mainPc \in {StartupSteps[k] : k \in 1..Len(StartupSteps)}
    /\ mainPc' = StepAfter(mainPc)
    /\ startup' = [done |-> IF ok THEN Append(startup.done, mainPc)
                            ELSE startup.done,
                   failed |-> startup.failed \/ ~ok]
    /\ UNCHANGED <<node, ctx, loops, sub, ticks, shut>>

\* one step of NewNode before the node value exists; on an error NewNode
\* panics, and of main's deferred calls only cancel() is registered
NewNodeStep(ok) ==
    /\ mainPc \in {StartupSteps[k] : k \in 1..Len(StartupSteps)}
    /\ mainPc' = IF ok THEN StepAfter(mainPc) ELSE "cancel"
    /\ startup' = [done |-> IF ok THEN Append(startup.done, mainPc)
                            ELSE startup.done,
                   failed |-> ~ok]
    /\ UNCHANGED <<node, ctx, loops, sub, ticks, shut>>

\* NewNode: the derived context, the node value, go eventLoop(),
\* go statsLoop(), return; main: defer freedomDht.Shutdown()
NewNodeReturn ==
    /\ mainPc = "spawn"
    /\ node' = RunningNode
    /\ loops' = [event |-> "subscribe", stats |-> "run"]
    /\ mainPc' = "newCache"
    /\ UNCHANGED <<ctx, sub, ticks, histVars>>

\* main: NewMemoryCache(); on an error main panics and its deferred calls
\* run; otherwise StartHTTPServer serves
MainNewCache(ok) ==
    /\ mainPc = "newCache"
    /\ mainPc' = IF ok THEN "serving" ELSE "closeHost"
    /\ UNCHANGED <<node, ctx, loops, sub, ticks, histVars>>

\* StartHTTPServer: the interrupt signal arrives, server.Shutdown is
\* called: the listener is closed, ListenAndServe returns ErrServerClosed
\* and main waits in wg.Wait(); inFlight: the handlers at work at that time
HTTPSignal ==
    /\ mainPc = "serving"
    /\ mainPc' = "httpShutdown"
    /\ shut' = [shut EXCEPT !.inFlight = {h \in Handlers : Active(h)}]
    /\ UNCHANGED <<node, ctx, loops, sub, ticks, startup>>

\* StartHTTPServer: ListenAndServe fails, log.Fatalf ends the process
HTTPFatal ==
    /\ mainPc = "serving"
    /\ mainPc' = "exited"
    /\ UNCHANGED <<node, ctx, loops, sub, ticks, histVars>>

\* a server that is closed at once, as by server.Close() (mutant of
\* HTTPShutdownReturn)
HTTPShutdownReturnAtOnce ==
    /\ mainPc = "httpShutdown"
    /\ mainPc' = "closeHost"
    /\ UNCHANGED <<node, ctx, loops, sub, ticks, histVars>>

\* StartHTTPServer returns once server.Shutdown has returned, which waits
\* for the handlers in flight; main's deferred Shutdown() is called
HTTPShutdownReturn ==
    /\ mainPc = "httpShutdown"
    /\ \A h \in Handlers : ~Active(h)
    /\ mainPc' = "closeHost"
    /\ UNCHANGED <<node, ctx, loops, sub, ticks, histVars>>

\* a Shutdown that gives up when host.Close() fails (mutant of
\* ShutdownCloseHost)
ShutdownCloseHostOrGiveUp(ok) ==
    /\ mainPc = "closeHost"
    /\ node' = IF node.host # "nil" THEN [node EXCEPT !.hostClosed = TRUE] ELSE node
    /\ shut' = [shut EXCEPT !.calls = Append(@, "host"),
                            !.failed = IF ok THEN @ ELSE @ \cup {"host"},
                            !.propagated = ~ok]
    /\ mainPc' = IF ok THEN "closeDHT" ELSE "cancel"
    /\ UNCHANGED <<ctx, loops, sub, ticks, startup>>

\* Shutdown: host.Close(); its error is dropped
ShutdownCloseHost(ok) ==
    /\ mainPc = "closeHost"
    /\ node' = IF node.host # "nil" THEN [node EXCEPT !.hostClosed = TRUE] ELSE node
    /\ shut' = IF node.host # "nil"
               THEN [shut EXCEPT !.calls = Append(@, "host"),
                                 !.failed = IF ok THEN @ ELSE @ \cup {"host"}]
               ELSE shut
    /\ mainPc' = "closeDHT"
    /\ UNCHANGED <<ctx, loops, sub, ticks, startup>>

\* Shutdown: kadDHT.Close(), an error is logged; Shutdown returns, and it
\* has no result
ShutdownCloseDHT(ok) ==
    /\ mainPc = "closeDHT"
    /\ node' = IF node.kadDHT # "nil" THEN [node EXCEPT !.dhtClosed = TRUE] ELSE node
    /\ shut' = IF node.kadDHT # "nil"
               THEN [shut EXCEPT !.calls = Append(@, "dht"),
                                 !.failed = IF ok THEN @ ELSE @ \cup {"dht"},
                                 !.logged = IF ok THEN @ ELSE @ \cup {"dht"},
                                 !.returned = TRUE]
               ELSE [shut EXCEPT !.returned = TRUE]
    /\ mainPc' = "cancel"
    /\ UNCHANGED <<ctx, loops, sub, ticks, startup>>

\* main's deferred cancel(): main's context is cancelled and with it the
\* node's context, which NewNode derived from it
MainCancel ==
    /\ mainPc = "cancel"
    /\ ctx' = [main |-> TRUE, node |-> TRUE]
    /\ mainPc' = "return"
    /\ UNCHANGED <<node, loops, sub, ticks, histVars>>

\* main returns: the process ends, whatever its goroutines are doing
MainReturn ==
    /\ mainPc = "return"
    /\ mainPc' = "exited"
    /\ UNCHANGED <<node, ctx, loops, sub, ticks, histVars>>

----------------------------------------------------------------------------
(* eventLoop and statsLoop *)

\* eventLoop: EventBus().Subscribe(...). On an error sub is nil and the
\* error is only logged; the deferred sub.Close() and sub.Out() then
\* dereference nil, and the panic of a goroutine ends the process
EventSubscribe(ok) ==
    /\ ~ProcessGone
    /\ loops.event = "subscribe"
    /\ IF ok
       THEN /\ sub' = [sub EXCEPT !.state = "open"]
            /\ loops' = [loops EXCEPT !.event = "run"]
            /\ UNCHANGED mainPc
       ELSE /\ sub' = [sub EXCEPT !.state = "failed"]
            /\ loops' = [loops EXCEPT !.event = "panicked"]
            /\ mainPc' = "crashed"
    /\ UNCHANGED <<node, ctx, ticks, histVars>>

\* eventLoop: an event is received and handed to a goroutine of its own
EventDispatch ==
    /\ ~ProcessGone
    /\ loops.event = "run"
    /\ sub.dispatched < MaxEvents
    /\ sub' = [sub EXCEPT !.dispatched = @ + 1]
    /\ UNCHANGED <<mainPc, node, ctx, loops, ticks, histVars>>

\* eventLoop: <-ctx.Done(): the deferred sub.Close(), return
EventLoopStop ==
    /\ ~ProcessGone
    /\ loops.event = "run"
    /\ ctx.node
    /\ sub' = [sub EXCEPT !.state = "closed"]
    /\ loops' = [loops EXCEPT !.event = "returned"]
    /\ UNCHANGED <<mainPc, node, ctx, ticks, histVars>>

\* statsLoop: <-ticker.C: one sample is logged
StatsTick ==
    /\ ~ProcessGone
    /\ loops.stats = "run"
    /\ ticks < MaxTicks
    /\ ticks' = ticks + 1
    /\ UNCHANGED <<mainPc, node, ctx, loops, sub, histVars>>

\* statsLoop: <-ctx.Done(): return
StatsLoopStop ==
    /\ ~ProcessGone
    /\ loops.stats = "run"
    /\ ctx.node
    /\ loops' = [loops EXCEPT !.stats = "returned"]
    /\ UNCHANGED <<mainPc, node, ctx, sub, ticks, histVars>>

----------------------------------------------------------------------------
(* loadOrGenerateKey *)

\* starts of the process the model follows
MaxStarts == 3

\* Ed25519 private keys
Keys == {"k1", "k2"}

\* private.key: missing, holding a marshalled key, or holding bytes that
\* are no marshalled key
KeyFiles == {"absent", "corrupt"} \cup Keys

\* crypto.GenerateKeyPairWithReader returns a key or an error
GenOutcomes == Keys \cup {"err"}

\* os.WriteFile writes the file, fails before it creates it, or fails
\* after it has created or truncated it
WriteOutcomes == {"written", "failed", "partial"}

KeyResult(key, err, file, generated, wrote) ==
    [key |-> key, err |-> err, file |-> file, generated |-> generated,
     wrote |-> wrote]

\* a loadOrGenerateKey that replaces a key file it cannot deserialise
\* (mutant of loadOrGenerateKey)
loadOrGenerateKeyRepair(file, readable, gen, write) ==
    IF file \in Keys /\ readable
    THEN KeyResult(file, "nil", file, FALSE, FALSE)
    ELSE IF gen = "err" THEN KeyResult("nil", "err", file, FALSE, FALSE)
    ELSE KeyResult(gen, "nil", gen, TRUE, TRUE)

\* loadOrGenerateKey over the key file `file`. readable: os.ReadFile
\* succeeds; gen: what key generation returns; write: what os.WriteFile
\* does, whose error is dropped
loadOrGenerateKey(file, readable, gen, write) ==
    IF file # "absent"
    THEN IF ~readable THEN KeyResult("nil", "err", file, FALSE, FALSE)
         ELSE IF file \in Keys THEN KeyResult(file, "nil", file, FALSE, FALSE)
         ELSE KeyResult("nil", "err", file, FALSE, FALSE)
    ELSE IF gen = "err" THEN KeyResult("nil", "err", file, FALSE, FALSE)
    ELSE KeyResult(gen, "nil",
                   CASE write = "written" -> gen
                     [] write = "partial" -> "corrupt"
                     [] OTHER -> file,
                   TRUE, TRUE)

KeyIdle ==
    /\ keyFile = "absent"
    /\ keyLog = << >>

\* the process starts: NewNode calls loadOrGenerateKey and panics on an error
StartupLoadKey(readable, gen, write) ==
    /\ Len(keyLog) < MaxStarts
    /\ LET r == loadOrGenerateKey(keyFile, readable, gen, write)
       IN /\ keyFile' = r.file
          /\ keyLog' = Append(keyLog,
                [before |-> keyFile, readable |-> readable, key |-> r.key,
                 err |-> r.err, after |-> r.file, generated |-> r.generated,
                 wrote |-> r.wrote, panicked |-> r.err # "nil"])

----------------------------------------------------------------------------
(* The event handler goroutines of eventLoop *)

Peers == {"p1", "p2"}

\* network.Connectedness
Connectedness == {"NotConnected", "Connected", "Limited"}

\* kinds the type switch only logs, and a kind it has no case for
LoggedKinds == {"LocalProtocolsUpdated", "PeerIdentificationFailed"}
UnknownKinds == {"other"}

ConnectednessChanged(p, c) ==
    [kind |-> "PeerConnectednessChanged", peer |-> p, conn |-> c]

\* the events the bus may deliver
Events ==
    {ConnectednessChanged(p, c) : p \in Peers, c \in Connectedness}
        \cup [kind : LoggedKinds \cup UnknownKinds, peer : {"none"}, conn : {"none"}]

\* a handler that removes the peer on every change of connectedness
\* (mutant of HandleEvent)
HandleEventAnyChange(e, ps) ==
    [peerstore |-> IF e.kind = "PeerConnectednessChanged"
                   THEN ps \ {e.peer} ELSE ps,
     line |-> IF e.kind \in UnknownKinds THEN "unknown event" ELSE e.kind]

\* the type switch of the handler goroutine over the peer store ps: every
\* case logs one line; the connectedness case also calls
\* Peerstore().RemovePeer when the event says NotConnected
HandleEvent(e, ps) ==
    [peerstore |-> IF /\ e.kind = "PeerConnectednessChanged"
                      /\ e.conn = "NotConnected"
                   THEN ps \ {e.peer} ELSE ps,
     line |-> IF e.kind \in UnknownKinds THEN "unknown event" ELSE e.kind]

EventsIdle ==
    /\ KeyIdle
    /\ conn = [p \in Peers |-> "NotConnected"]
    /\ peerstore = {}
    /\ events = << >>
    /\ ran = {}
    /\ evLog = {}

\* the host's connectedness to a peer changes, which the bus reports (a
\* host that connects to a peer keeps the peer's addresses in its peer
\* store), or another event is emitted; eventLoop receives the event and
\* starts a goroutine for it
EventReceive(e) ==
    /\ EventDispatch
    /\ events' = Append(events, e)
    /\ IF e.kind = "PeerConnectednessChanged"
       THEN /\ e.conn # conn[e.peer]
            /\ conn' = [conn EXCEPT ![e.peer] = e.conn]
            /\ peerstore' = IF e.conn = "Connected"
                            THEN peerstore \cup {e.peer} ELSE peerstore
       ELSE UNCHANGED <<conn, peerstore>>
    /\ UNCHANGED <<ran, evLog>>

\* the goroutine started for the i-th event runs, at whatever time the
\* scheduler gives it
EventHandle(i) ==
    /\ ~ProcessGone
    /\ i \in 1..Len(events)
    /\ i \notin ran
    /\ LET h == HandleEvent(events[i], peerstore)
       IN /\ peerstore' = h.peerstore
          /\ evLog' = evLog \cup {<<i, h.line>>}
    /\ ran' = ran \cup {i}
    /\ UNCHANGED <<conn, events, mainPc, node, ctx, loops, sub, ticks, histVars>>

----------------------------------------------------------------------------
(* Introspection accessors *)

\* what kadDHT.Mode() may report; "other" is a mode GetMode does not name
DhtModes == {"ModeAuto", "ModeClient", "ModeServer", "ModeAutoServer", "other"}

\* a call that returned value and err
Returned(value, err) == [value |-> value, err |-> err]

\* the empty string, the nil slice, the number zero
ZeroValues == {"", "nil", "0"}

\* FreedomNameNode.GetMode
GetMode(n, mode) ==
    IF n.kadDHT # "nil"
    THEN Returned(CASE mode = "ModeAuto" -> "Auto"
                    [] mode = "ModeClient" -> "Client"
                    [] mode = "ModeServer" -> "Server"
                    [] mode = "ModeAutoServer" -> "AutoServer"
                    [] OTHER -> "Unknown", "nil")
    ELSE Returned("Not initialized", "nil")

\* FreedomNameNode.GetProtocols
GetProtocols(n) ==
    IF n.kadDHT # "nil" THEN Returned("protocols", "nil") ELSE Returned("nil", "nil")

\* FreedomNameNode.GetPeerInfos
GetPeerInfos(n) ==
    IF n.kadDHT # "nil" THEN Returned("peerInfos", "nil") ELSE Returned("nil", "nil")

\* FreedomNameNode.GetRoutingPeers
GetRoutingPeers(n) ==
    IF n.kadDHT # "nil" THEN Returned("routingPeers", "nil") ELSE Returned("nil", "nil")

\* FreedomNameNode.GetNetworkPeers
GetNetworkPeers(n) ==
    IF n.kadDHT # "nil" THEN Returned("networkPeers", "nil") ELSE Returned("nil", "nil")

\* FreedomNameNode.GetPeerID
GetPeerID(n) ==
    IF n.kadDHT # "nil" THEN Returned("peerID", "nil") ELSE Returned("", "nil")

\* FreedomNameNode.GetListenAddresses
GetListenAddresses(n) ==
    IF n.kadDHT # "nil" THEN Returned("addrs", "nil") ELSE Returned("nil", "nil")

\* FreedomNameNode.GetNetworkSize; ok: kadDHT.NetworkSize() has an estimate
GetNetworkSize(n, ok) ==
    IF n.kadDHT # "nil"
    THEN IF ok THEN Returned("size", "nil") ELSE Returned("0", "err")
    ELSE Returned("0", "DHT not initialized")

Accessors ==
    {"GetMode", "GetProtocols", "GetPeerInfos", "GetRoutingPeers",
     "GetNetworkPeers", "GetPeerID", "GetListenAddresses", "GetNetworkSize"}

NoAccess == [fn |-> "none", uninitialized |-> FALSE, value |-> "", err |-> "nil"]

\* an accessor is called on the node value; before NewNode has returned
\* that is a FreedomNameNode whose kadDHT is nil
AccessorCall(fn, mode, ok) ==
    /\ ~ProcessGone
    /\ fn # "GetMode" => mode = "ModeAuto"
    /\ fn # "GetNetworkSize" => ok
    /\ LET r == CASE fn = "GetMode" -> GetMode(node, mode)
                  [] fn = "GetProtocols" -> GetProtocols(node)
                  [] fn = "GetPeerInfos" -> GetPeerInfos(node)
                  [] fn = "GetRoutingPeers" -> GetRoutingPeers(node)
                  [] fn = "GetNetworkPeers" -> GetNetworkPeers(node)
                  [] fn = "GetPeerID" -> GetPeerID(node)
                  [] fn = "GetListenAddresses" -> GetListenAddresses(node)
                  [] fn = "GetNetworkSize" -> GetNetworkSize(node, ok)
       IN acc' = [fn |-> fn, uninitialized |-> node.kadDHT = "nil",
                  value |-> r.value, err |-> r.err]
    /\ UNCHANGED <<mainPc, node, ctx, loops, sub, ticks, histVars>>

----------------------------------------------------------------------------
(* The bounded local cache: MemoryCache over lru.Cache *)

\* entries the modelled cache holds; stands for the 100 of lru.New(100)
CacheSize == 3

\* one key more than the cache holds
CacheKeys == {<<96 + k>> : k \in 1..(CacheSize + 1)}
CacheValues == {<<49>>, <<50>>}

\* the keys of a list of entries, in the order of the list
RECURSIVE KeysOf(_)
KeysOf(c) == IF c = << >> THEN << >> ELSE <<Head(c).key>> \o KeysOf(Tail(c))

KeySet(c) == {c[i].key : i \in 1..Len(c)}

\* position of key in the list, 0 when absent
IndexOf(c, key) ==
    IF key \in KeySet(c) THEN CHOOSE i \in 1..Len(c) : c[i].key = key ELSE 0

\* list.MoveToFront
MoveToFront(c, i) == <<c[i]>> \o SubSeq(c, 1, i - 1) \o SubSeq(c, i + 1, Len(c))

\* list.Remove
RemoveAt(c, i) == SubSeq(c, 1, i - 1) \o SubSeq(c, i + 1, Len(c))

\* a Get that leaves the list in its order (mutant of Get)
GetWithoutPromotion(c, key) ==
    LET i == IndexOf(c, key)
    IN  IF i = 0 THEN [value |-> << >>, found |-> FALSE, cache |-> c]
        ELSE [value |-> c[i].value, found |-> TRUE, cache |-> c]

\* MemoryCache.Get: lru.Get moves a hit to the front; a miss is ("", false)
Get(c, key) ==
    LET i == IndexOf(c, key)
    IN  IF i = 0 THEN [value |-> << >>, found |-> FALSE, cache |-> c]
        ELSE [value |-> c[i].value, found |-> TRUE, cache |-> MoveToFront(c, i)]

\* an Add that never evicts, as the Set of the map cache (mutant of Add)
AddUnbounded(c, key, value) ==
    LET i == IndexOf(c, key)
        e == [key |-> key, value |-> value]
    IN  IF i # 0 THEN <<e>> \o RemoveAt(c, i) ELSE <<e>> \o c

\* MemoryCache.Add: lru.Add updates a present key and moves it to the
\* front; a new key is pushed to the front, and the entry at the back is
\* removed when the list has grown beyond its size
Add(c, key, value) ==
    LET i == IndexOf(c, key)
        e == [key |-> key, value |-> value]
        pushed == <<e>> \o c
    IN  IF i # 0 THEN <<e>> \o RemoveAt(c, i)
        ELSE IF Len(pushed) > CacheSize THEN SubSeq(pushed, 1, Len(pushed) - 1)
        ELSE pushed

\* MemoryCache.Expire: lru.Remove
Expire(c, key) ==
    LET i == IndexOf(c, key) IN IF i = 0 THEN c ELSE RemoveAt(c, i)

\* MemoryCache.Length: lru.Len
Length(c) == Len(c)

\* MemoryCache.Clear: lru.Purge
Clear(c) == << >>

\* history: key k has just been accessed / inserted
Touch(h, k) == <<k>> \o SelectSeq(h, LAMBDA x : x # k)
\* history: only the keys still cached are remembered
Cached(h, c) == SelectSeq(h, LAMBDA x : x \in KeySet(c))

NoKey == << >>
NoLruOp ==
    [op |-> "none", key |-> NoKey, value |-> << >>, found |-> FALSE,
     evicted |-> {}, oldestIn |-> NoKey]

\* the key inserted longest ago
OldestInserted == IF inserted = << >> THEN NoKey ELSE inserted[Len(inserted)]

LruIdle ==
    /\ lru = << >>
    /\ touched = << >>
    /\ inserted = << >>
    /\ lruOp = NoLruOp

CacheGetCall(key) ==
    LET r == Get(lru, key)
    IN  /\ lru' = r.cache
        /\ touched' = IF r.found THEN Touch(touched, key) ELSE touched
        /\ inserted' = inserted
        /\ lruOp' = [NoLruOp EXCEPT !.op = "get", !.key = key,
                                    !.value = r.value, !.found = r.found]

CacheAddCall(key, value) ==
    /\ lru' = Add(lru, key, value)
    /\ touched' = Cached(Touch(touched, key), lru')
    /\ inserted' = Cached(IF key \in KeySet(lru) THEN inserted
                          ELSE Touch(inserted, key), lru')
    /\ lruOp' = [NoLruOp EXCEPT !.op = "add", !.key = key, !.value = value,
                                !.found = key \in KeySet(lru),
                                !.evicted = KeySet(lru) \ KeySet(lru'),
                                !.oldestIn = OldestInserted]

CacheExpireCall(key) ==
    /\ lru' = Expire(lru, key)
    /\ touched' = Cached(touched, lru')
    /\ inserted' = Cached(inserted, lru')
    /\ lruOp' = [NoLruOp EXCEPT !.op = "expire", !.key = key,
                                !.found = key \in KeySet(lru)]

CacheClearCall ==
    /\ lru' = Clear(lru)
    /\ touched' = << >>
    /\ inserted' = << >>
    /\ lruOp' = [NoLruOp EXCEPT !.op = "clear"]

----------------------------------------------------------------------------
(* Specifications *)

EmptyMap == [x \in {} |-> << >>]

HTTPIdle ==
    /\ LruIdle
    /\ cache = EmptyMap
    /\ mu = Unlocked
    /\ req = [h \in Handlers |-> IdleReq]
    /\ last = NoRequest

\* StartHTTPServer serves with the FreedomDHT n, both loops run
ServingWith(n) ==
    /\ mainPc = "serving"
    /\ node = n
    /\ ctx = [main |-> FALSE, node |-> FALSE]
    /\ loops = [event |-> "run", stats |-> "run"]
    /\ sub = [state |-> "open", dispatched |-> 0]
    /\ ticks = 0
    /\ acc = NoAccess
    /\ startup = [done |-> StartupSteps, failed |-> FALSE]
    /\ shut = NoShutdown

\* the node as StartHTTPServer finds it in main: NewNode has returned
NodeServing == ServingWith(RunningNode)

\* the FreedomDHT the handlers may be built with: the node NewNode returns,
\* or a node whose kadDHT is nil
HandlerNodes == {RunningNode, NoNode}

\* the handlers that serve the requests of Spec, one request at a time
SeqHandlers == {1}

\* Spec: the HTTP handlers over a FreedomDHT. The cache is empty and the
\* store holds what other nodes have published.
Init ==
    /\ ValidatorIdle
    /\ HTTPIdle
    /\ EventsIdle
    /\ store \in InitialStores
    /\ \E n \in HandlerNodes : ServingWith(n)

Next ==
    \/ \E h \in SeqHandlers, m \in Methods, e \in BodyErrors, n \in 0..MaxBatch :
            AddBegin(h, m, e, n) /\ UNCHANGED <<unitVars, nodeVars, mu>>
    \/ \E h \in SeqHandlers, p \in Pairs :
            AddCacheSet(h, p) /\ UNCHANGED <<unitVars, nodeVars, mu>>
    \/ \E h \in SeqHandlers :
            AddPutValue(h) /\ UNCHANGED <<unitVars, nodeVars, mu>>
    \/ \E h \in SeqHandlers, ok \in BOOLEAN, stored \in BOOLEAN :
            AddPutReturn(h, ok, stored) /\ UNCHANGED <<unitVars, nodeVars, mu>>
    \/ \E h \in SeqHandlers, k \in QueryKeys :
            LookupBegin(h, k) /\ UNCHANGED <<unitVars, nodeVars, mu>>
    \/ \E h \in SeqHandlers, ok \in BOOLEAN :
            LookupGetReturn(h, ok) /\ UNCHANGED <<unitVars, nodeVars, mu>>
    \/ \E h \in SeqHandlers :
            LookupFill(h) /\ UNCHANGED <<unitVars, nodeVars, mu>>
    \/ \E h \in SeqHandlers :
            RequestAbort(h) /\ UNCHANGED <<unitVars, nodeVars, mu>>
    \/ \E h \in SeqHandlers :
            AllPeersRequest(h) /\ UNCHANGED <<unitVars, nodeVars, mu>>
    \/ \E h \in SeqHandlers :
            InfoRequest(h) /\ UNCHANGED <<unitVars, nodeVars, mu>>

Spec == Init /\ [][Next]_vars

\* SpecNode: the life of the process, from main's first line to its end
InitNode ==
    /\ ValidatorIdle
    /\ HTTPIdle
    /\ EventsIdle
    /\ store = EmptyMap
    /\ mainPc = "start"
    /\ node = NoNode
    /\ ctx = [main |-> FALSE, node |-> FALSE]
    /\ loops = [event |-> "none", stats |-> "none"]
    /\ sub = [state |-> "none", dispatched |-> 0]
    /\ ticks = 0
    /\ acc = NoAccess
    /\ startup = [done |-> << >>, failed |-> FALSE]
    /\ shut = NoShutdown

NextNode ==
    \/ MainStart /\ UNCHANGED <<unitVars, httpVars, acc>>
    \/ \E ok \in BOOLEAN : NewNodeStep(ok) /\ UNCHANGED <<unitVars, httpVars, acc>>
    \/ NewNodeReturn /\ UNCHANGED <<unitVars, httpVars, acc>>
    \/ \E ok \in BOOLEAN : MainNewCache(ok) /\ UNCHANGED <<unitVars, httpVars, acc>>
    \/ HTTPSignal /\ UNCHANGED <<unitVars, httpVars, acc>>
    \/ HTTPFatal /\ UNCHANGED <<unitVars, httpVars, acc>>
    \/ HTTPShutdownReturn /\ UNCHANGED <<unitVars, httpVars, acc>>
    \/ \E ok \in BOOLEAN : ShutdownCloseHost(ok) /\ UNCHANGED <<unitVars, httpVars, acc>>
    \/ \E ok \in BOOLEAN : ShutdownCloseDHT(ok) /\ UNCHANGED <<unitVars, httpVars, acc>>
    \/ MainCancel /\ UNCHANGED <<unitVars, httpVars, acc>>
    \/ MainReturn /\ UNCHANGED <<unitVars, httpVars, acc>>
    \/ \E ok \in BOOLEAN : EventSubscribe(ok) /\ UNCHANGED <<unitVars, httpVars, acc>>
    \/ EventDispatch /\ UNCHANGED <<unitVars, httpVars, acc>>
    \/ EventLoopStop /\ UNCHANGED <<unitVars, httpVars, acc>>
    \/ StatsTick /\ UNCHANGED <<unitVars, httpVars, acc>>
    \/ StatsLoopStop /\ UNCHANGED <<unitVars, httpVars, acc>>
    \/ \E fn \in Accessors, mode \in DhtModes, ok \in BOOLEAN :
            AccessorCall(fn, mode, ok) /\ UNCHANGED <<unitVars, httpVars>>

SpecNode == InitNode /\ [][NextNode]_vars

\* SpecNodeLive: SpecNode with what the scheduler guarantees: main goes on
\* to its end, and a loop whose select can take <-ctx.Done() takes it
MainStep ==
    /\ UNCHANGED <<unitVars, httpVars, acc>>
    /\ \/ MainStart
       \/ \E ok \in BOOLEAN : NewNodeStep(ok)
       \/ NewNodeReturn
       \/ \E ok \in BOOLEAN : ShutdownCloseHost(ok)
       \/ \E ok \in BOOLEAN : ShutdownCloseDHT(ok)
       \/ MainCancel
       \/ MainReturn

LoopStep ==
    /\ UNCHANGED <<unitVars, httpVars, acc>>
    /\ \/ \E ok \in BOOLEAN : EventSubscribe(ok)
       \/ EventLoopStop
       \/ StatsLoopStop

SpecNodeLive ==
    /\ SpecNode
    /\ WF_vars(MainStep)
    /\ WF_vars(LoopStep)

\* SpecValidator: Validate applied once to a key and a value drawn in Init
InitValidator ==
    /\ vKey \in ValidatorKeys
    /\ vValue \in ValidatorValues
    /\ vResult = "pending"
    /\ SelectIdle
    /\ HTTPIdle
    /\ EventsIdle
    /\ store = EmptyMap
    /\ NodeServing

NextValidator == ValidateCall /\ UNCHANGED <<httpVars, nodeVars, lruVars, eventVars, keyVars>>

SpecValidator == InitValidator /\ [][NextValidator]_vars

\* SpecSelect: Select applied, more than once, to a key and a list of
\* candidates drawn in Init
InitSelect ==
    /\ vKey \in SelectKeys
    /\ vValue = << >>
    /\ vResult = "idle"
    /\ sVals \in SelectCandidates
    /\ sResults = << >>
    /\ HTTPIdle
    /\ EventsIdle
    /\ store = EmptyMap
    /\ NodeServing

NextSelect == SelectCall /\ UNCHANGED <<httpVars, nodeVars, lruVars, eventVars, keyVars>>

SpecSelect == InitSelect /\ [][NextSelect]_vars

\* SpecCache: the operations of the bounded cache, in any order
InitCache ==
    /\ ValidatorIdle
    /\ HTTPIdle
    /\ EventsIdle
    /\ store = EmptyMap
    /\ NodeServing

NextCache ==
    \/ \E k \in CacheKeys :
            CacheGetCall(k) /\ UNCHANGED <<validatorVars, selectVars, httpVars, nodeVars, eventVars, keyVars>>
    \/ \E k \in CacheKeys, v \in CacheValues :
            CacheAddCall(k, v) /\ UNCHANGED <<validatorVars, selectVars, httpVars, nodeVars, eventVars, keyVars>>
    \/ \E k \in CacheKeys :
            CacheExpireCall(k) /\ UNCHANGED <<validatorVars, selectVars, httpVars, nodeVars, eventVars, keyVars>>
    \/ CacheClearCall /\ UNCHANGED <<validatorVars, selectVars, httpVars, nodeVars, eventVars, keyVars>>

SpecCache == InitCache /\ [][NextCache]_vars

\* SpecKey: the process is started again and again over one key file
InitKey ==
    /\ ValidatorIdle
    /\ HTTPIdle
    /\ store = EmptyMap
    /\ mainPc = "start"
    /\ node = NoNode
    /\ ctx = [main |-> FALSE, node |-> FALSE]
    /\ loops = [event |-> "none", stats |-> "none"]
    /\ sub = [state |-> "none", dispatched |-> 0]
    /\ ticks = 0
    /\ acc = NoAccess
    /\ startup = [done |-> << >>, failed |-> FALSE]
    /\ shut = NoShutdown
    /\ conn = [p \in Peers |-> "NotConnected"]
    /\ peerstore = {}
    /\ events = << >>
    /\ ran = {}
    /\ evLog = {}
    /\ keyFile \in KeyFiles
    /\ keyLog = << >>

NextKey ==
    \E readable \in BOOLEAN, gen \in GenOutcomes, write \in WriteOutcomes :
        /\ StartupLoadKey(readable, gen, write)
        /\ UNCHANGED <<validatorVars, selectVars, lruVars, eventVars, httpVars, nodeVars>>

SpecKey == InitKey /\ [][NextKey]_vars

\* SpecEvents: eventLoop and its handler goroutines on a running node. When
\* eventLoop subscribes, after Bootstrap, the host may be connected to
\* peers already.
InitEvents ==
    /\ ValidatorIdle
    /\ HTTPIdle
    /\ NodeServing
    /\ KeyIdle
    /\ store = EmptyMap
    /\ conn \in [Peers -> {"NotConnected", "Connected"}]
    /\ peerstore = {p \in Peers : conn[p] = "Connected"}
    /\ events = << >>
    /\ ran = {}
    /\ evLog = {}

NextEvents ==
    \/ \E e \in Events :
            EventReceive(e) /\ UNCHANGED <<validatorVars, selectVars, lruVars, keyVars, httpVars, acc>>
    \/ \E i \in 1..MaxEvents :
            EventHandle(i) /\ UNCHANGED <<validatorVars, selectVars, lruVars, keyVars, httpVars, acc>>

SpecEvents == InitEvents /\ [][NextEvents]_vars

\* SpecConc: the server runs each request in a goroutine of its own; two
\* handlers, one request each, interleaved step by step, the cache behind
\* its RWMutex
ConcBatch == 2
ConcNames == {<<97>>, <<98>>}
ConcValues == {<<49>>, <<50>>}
ConcPairs == [name : ConcNames, value : ConcValues]

ConcStores ==
    UNION {[D -> ConcValues] : D \in SUBSET {DhtKey(n) : n \in ConcNames}}

\* the handler goroutine h has not been given its request
Unserved(h) == req[h].kind = "idle" /\ h \notin Holders(mu)

InitConc ==
    /\ ValidatorIdle
    /\ HTTPIdle
    /\ EventsIdle
    /\ NodeServing
    /\ store \in ConcStores

NextConc ==
    \/ \E h \in Handlers, n \in 1..ConcBatch :
            /\ Unserved(h)
            /\ AddBegin(h, "POST", "none", n)
            /\ UNCHANGED <<unitVars, nodeVars, mu>>
    \/ \E h \in Handlers :
            Unserved(h) /\ CacheRLock(h) /\ UNCHANGED <<unitVars, nodeVars>>
    \/ \E h \in Handlers, k \in ConcNames :
            LockedGet(h, k) /\ UNCHANGED <<unitVars, nodeVars>>
    \/ \E h \in Handlers, ok \in BOOLEAN :
            LookupGetReturn(h, ok) /\ UNCHANGED <<unitVars, nodeVars, mu>>
    \/ \E h \in Handlers :
            CacheLock(h) /\ UNCHANGED <<unitVars, nodeVars>>
    \/ \E h \in Handlers :
            LockedFill(h) /\ UNCHANGED <<unitVars, nodeVars>>
    \/ \E h \in Handlers, p \in ConcPairs :
            LockedAddSet(h, p) /\ UNCHANGED <<unitVars, nodeVars>>
    \/ \E h \in Handlers :
            AddPutValue(h) /\ UNCHANGED <<unitVars, nodeVars, mu>>
    \/ \E h \in Handlers, ok \in BOOLEAN, stored \in BOOLEAN :
            AddPutReturn(h, ok, stored) /\ UNCHANGED <<unitVars, nodeVars, mu>>

SpecConc == InitConc /\ [][NextConc]_vars

\* SpecServe: the handlers at work while main goes from serving through the
\* interrupt signal to its return: two handlers, one request each, a write
\* request being of one pair. The server takes new requests until
\* server.Shutdown is called; a goroutine runs only while the process lives.
InitServe ==
    /\ ValidatorIdle
    /\ HTTPIdle
    /\ EventsIdle
    /\ NodeServing
    /\ store \in ConcStores

Accepting == mainPc = "serving"

NextServe ==
    \/ \E h \in Handlers :
            /\ Accepting
            /\ Unserved(h)
            /\ AddBegin(h, "POST", "none", 1)
            /\ UNCHANGED <<unitVars, nodeVars, mu>>
    \/ \E h \in Handlers, p \in ConcPairs :
            ~ProcessGone /\ AddCacheSet(h, p) /\ UNCHANGED <<unitVars, nodeVars, mu>>
    \/ \E h \in Handlers :
            ~ProcessGone /\ AddPutValue(h) /\ UNCHANGED <<unitVars, nodeVars, mu>>
    \/ \E h \in Handlers, ok \in BOOLEAN, stored \in BOOLEAN :
            ~ProcessGone /\ AddPutReturn(h, ok, stored) /\ UNCHANGED <<unitVars, nodeVars, mu>>
    \/ \E h \in Handlers, k \in ConcNames :
            /\ Accepting
            /\ Unserved(h)
            /\ LookupBegin(h, k)
            /\ UNCHANGED <<unitVars, nodeVars, mu>>
    \/ \E h \in Handlers, ok \in BOOLEAN :
            ~ProcessGone /\ LookupGetReturn(h, ok) /\ UNCHANGED <<unitVars, nodeVars, mu>>
    \/ \E h \in Handlers :
            ~ProcessGone /\ LookupFill(h) /\ UNCHANGED <<unitVars, nodeVars, mu>>
    \/ HTTPSignal /\ UNCHANGED <<unitVars, httpVars, acc>>
    \/ HTTPFatal /\ UNCHANGED <<unitVars, httpVars, acc>>
    \/ HTTPShutdownReturn /\ UNCHANGED <<unitVars, httpVars, acc>>
    \/ \E ok \in BOOLEAN : ShutdownCloseHost(ok) /\ UNCHANGED <<unitVars, httpVars, acc>>
    \/ \E ok \in BOOLEAN : ShutdownCloseDHT(ok) /\ UNCHANGED <<unitVars, httpVars, acc>>
    \/ MainCancel /\ UNCHANGED <<unitVars, httpVars, acc>>
    \/ MainReturn /\ UNCHANGED <<unitVars, httpVars, acc>>

SpecServe == InitServe /\ [][NextServe]_vars

\* SpecNames: the handlers, one request at a time, over names that look
\* like paths: "/", "a/b", "/x/a", and the plain name "a"
PathNames == {<<Slash>>, <<97, Slash, 98>>, <<Slash, 120, Slash, 97>>, <<97>>}
PathPairs == [name : PathNames, value : {<<49>>}]

\* records other nodes have published under some of these names
PathStores ==
    UNION {[D -> {<<49>>}] :
             D \in SUBSET {<<Slash>> \o NamespaceFn \o <<Slash>> \o n : n \in PathNames}}

InitNames ==
    /\ ValidatorIdle
    /\ HTTPIdle
    /\ EventsIdle
    /\ NodeServing
    /\ store \in PathStores

NextNames ==
    \/ \E h \in SeqHandlers, n \in 1..ConcBatch :
            AddBegin(h, "POST", "none", n) /\ UNCHANGED <<unitVars, nodeVars, mu>>
    \/ \E h \in SeqHandlers, p \in PathPairs :
            AddCacheSet(h, p) /\ UNCHANGED <<unitVars, nodeVars, mu>>
    \/ \E h \in SeqHandlers :
            AddPutValue(h) /\ UNCHANGED <<unitVars, nodeVars, mu>>
    \/ \E h \in SeqHandlers, ok \in BOOLEAN, stored \in BOOLEAN :
            AddPutReturn(h, ok, stored) /\ UNCHANGED <<unitVars, nodeVars, mu>>
    \/ \E h \in SeqHandlers, k \in PathNames :
            LookupBegin(h, k) /\ UNCHANGED <<unitVars, nodeVars, mu>>
    \/ \E h \in SeqHandlers, ok \in BOOLEAN :
            LookupGetReturn(h, ok) /\ UNCHANGED <<unitVars, nodeVars, mu>>
    \/ \E h \in SeqHandlers :
            LookupFill(h) /\ UNCHANGED <<unitVars, nodeVars, mu>>

SpecNames == InitNames /\ [][NextNames]_vars

----------------------------------------------------------------------------
(* Claims *)

AddReqs == {h \in Handlers : req[h].kind = "add"}
LookupReqs == {h \in Handlers : req[h].kind = "lookup"}
Done(h) == req[h].pc = "done"

\* a lookup that began right after the request `op` for its own key had
\* ended, with no handler at work in between
Follows(h, op) ==
    /\ h \in LookupReqs
    /\ Done(h)
    /\ req[h].after.op = op
    /\ req[h].after.name = req[h].key

\* the lookup answered with the value of the request it follows, from the
\* cache, without a call to the store
ServedFromCache(h) ==
    /\ req[h].status = 200
    /\ req[h].body = req[h].after.value
    /\ req[h].storeCalls = 0

\* C1: a Resolve issued right after a successful Publish of one pair
\* (n, v), with no other operation in between, returns v and makes no
\* GetValue call.
C1_PublishThenResolve ==
    \A h \in Handlers : Follows(h, "added") => ServedFromCache(h)

\* C1 for the names LookupHandler takes: every name but "". (Publish admits
\* the name "", Resolve answers 400 to it.)
C1_PublishThenResolve_NonEmptyName ==
    \A h \in Handlers :
        (Follows(h, "added") /\ req[h].key # << >>) => ServedFromCache(h)

C1_NonEmptyName_Witness ==
    \E h \in Handlers :
        Follows(h, "added") /\ req[h].key # << >> /\ req[h].body # << >>

\* C2: Publish runs the validator before any mutation: whenever the cache
\* has been written for the pair an AddHandler is at, the validator has
\* accepted that pair.
C2_ValidatorBeforeCacheWrite ==
    \A h \in AddReqs : req[h].pc = "putValue" => req[h].validated

\* Every record AddHandler hands to PutValue passes the validator: the names
\* json.Unmarshal delivers are valid UTF-8 and the namespace is always "fn",
\* so a Publish never ends in a rejection.
PublishNeverRejected ==
    \A h \in AddReqs :
        (Done(h) /\ req[h].callErr = "err") => req[h].validated

\* C3: Validate rejects every key whose local name is empty or is not valid
\* UTF-8, whatever the value.
C3_RejectsEmptyOrNonUTF8LocalName ==
    LET sp == SplitKey(vKey)
    IN  (vResult \notin {"idle", "pending"} /\ ~sp.err
            /\ (sp.key = << >> \/ ~ValidString(sp.key)))
        => vResult # Accepted

\* C3 without its empty-name half, which the code does hold
C3_RejectsNonUTF8LocalName ==
    LET sp == SplitKey(vKey)
    IN  (vResult \notin {"idle", "pending"} /\ ~sp.err /\ ~ValidString(sp.key))
        => vResult # Accepted

\* C4: Validate rejects every key whose namespace is not exactly "fn" (with
\* the namespace error when the key has a namespace at all), whatever the
\* value: no value makes Validate accept such a key.
C4_ForeignNamespaceRejected ==
    LET sp == SplitKey(vKey)
    IN  vResult \notin {"idle", "pending"} =>
            /\ sp.err => vResult = ErrInvalidRecordType
            /\ (~sp.err /\ sp.ns # NamespaceFn) =>
                    /\ vResult = ErrNamespace
                    /\ \A v \in ValidatorValues : Validate(vKey, v) = ErrNamespace

C4_Witness ==
    LET sp == SplitKey(vKey)
    IN  /\ vResult = ErrNamespace
        /\ ~sp.err
        /\ sp.ns # NamespaceFn
        /\ sp.key # << >>
        /\ ValidString(sp.key)
        /\ vValue # << >>

\* C5: IsInitialized() is false before startup has completed and after
\* Shutdown() has begun: it is true only while the node is Running.
C5_InitializedOnlyWhileRunning ==
    IsInitialized => Lifecycle = "Running"

\* Shutdown() has returned
ShutdownReturned == node.dhtClosed

\* C6: Shutdown() cancels the node-wide cancellation scope: once it has
\* returned, the node's context is cancelled.
C6_ShutdownCancelsNodeScope ==
    ShutdownReturned => ctx.node

\* C6, the loops: once Shutdown() has returned, both loops have terminated
\* or are able to (they see the cancellation), with no step of the caller.
C6_LoopsReleasedByShutdown ==
    (ShutdownReturned /\ ~ProcessGone) =>
        /\ loops.event \in {"run", "subscribe"} => ctx.node
        /\ loops.stats = "run" => ctx.node

\* C7: the context of every store call derives from the request: when the
\* request is aborted while its store call is in flight, the call's context
\* is cancelled.
C7_StoreCallCancelledWithRequest ==
    \A h \in Handlers :
        (req[h].pc \in {"putInFlight", "getInFlight"} /\ req[h].reqDone)
            => req[h].callCtx = "cancelled"

\* a lookup whose GetValue returned the empty value and no error
GotEmptyValue(h) ==
    /\ h \in LookupReqs
    /\ Done(h)
    /\ req[h].storeCalls = 1
    /\ req[h].callErr = "nil"
    /\ req[h].got = << >>

\* C8: a Resolve that misses the cache and gets the empty value and no
\* error from the store answers NotFound (404), and the cache holds no
\* entry for the name afterwards.
C8_EmptyValueIsNotFound ==
    \A h \in Handlers :
        GotEmptyValue(h) =>
            /\ req[h].status = 404
            /\ req[h].body = << >>
            /\ req[h].key \notin DOMAIN cache

C8_Witness ==
    \E h \in Handlers :
        /\ GotEmptyValue(h)
        /\ req[h].status = 404
        /\ DhtKey(req[h].key) \in DOMAIN store
        /\ req[h].key \notin DOMAIN cache

Holds(m, k, v) == k \in DOMAIN m /\ m[k] = v

\* m1 and m2 agree at k
SameAt(m1, m2, k) ==
    /\ k \in DOMAIN m1 <=> k \in DOMAIN m2
    /\ k \in DOMAIN m1 => m1[k] = m2[k]

\* a write request one of whose PutValue calls returned an error
FailedAdd(h) == h \in AddReqs /\ req[h].callErr = "err"

\* the failure has ended the request with an error, and every name written
\* before the failing one is in the cache and in the store with its value
AbortKeepsEarlier(h) ==
    FailedAdd(h) =>
        /\ Done(h)
        /\ req[h].status = 500
        /\ req[h].remaining > 0
        /\ \A n \in (DOMAIN req[h].applied) \ {req[h].cur.name} :
                /\ Holds(cache, n, req[h].applied[n])
                /\ Holds(store, DhtKey(n), req[h].applied[n])

\* one at a time: a step of a write request in progress leaves the cache and
\* store entries of every name but the one its loops are at as they are
OnlyCurrentNameWritten(h) ==
    (h \in AddReqs /\ Active(h) /\ Quiescent(h)) =>
        \A n \in QueryKeys \ {req'[h].cur.name} :
            /\ SameAt(cache, cache', n)
            /\ SameAt(store, store', DhtKey(n))

\* a request that has failed writes nothing more
FailedAddWritesNoMore(h) ==
    (FailedAdd(h) /\ Quiescent(h)) => (cache' = cache /\ store' = store)

\* C9: the names of a write request are published one at a time; the first
\* failure ends the request with an error; the names written before it stay
\* in the cache and in the store; the names after it are written to
\* neither: no step of the request touches a name other than the one it is
\* at, and the failed request takes no further step.
C9_PartialApplication ==
    [][\A h \in Handlers :
            /\ AbortKeepsEarlier(h)'
            /\ OnlyCurrentNameWritten(h)
            /\ FailedAddWritesNoMore(h)]_vars

\* three names: the first is written, the second fails, the third is left
C9_Witness ==
    \E h \in Handlers :
        /\ FailedAdd(h) /\ Done(h)
        /\ req[h].total = 3 /\ req[h].remaining = 2
        /\ \E n \in DOMAIN req[h].applied :
                /\ n # req[h].cur.name
                /\ Holds(cache, n, req[h].applied[n])
                /\ Holds(store, DhtKey(n), req[h].applied[n])
        /\ Holds(cache, req[h].cur.name, req[h].cur.value)
        /\ \E n \in Names : n \notin DOMAIN cache /\ DhtKey(n) \notin DOMAIN store

\* C10: when PutValue for (name, v) fails during Publish, the cache entry
\* name -> v stays: a Resolve for name that follows returns v from the
\* cache.
C10_FailedPutStillResolves ==
    /\ last.op = "putFailed" => Holds(cache, last.name, last.value)
    /\ \A h \in Handlers : Follows(h, "putFailed") => ServedFromCache(h)

\* C10 for the names LookupHandler takes: every name but ""
C10_FailedPutStillResolves_NonEmptyName ==
    /\ last.op = "putFailed" => Holds(cache, last.name, last.value)
    /\ \A h \in Handlers :
        (Follows(h, "putFailed") /\ req[h].key # << >>) => ServedFromCache(h)

\* the store holds no record for the name, the cache answers with v
C10_NonEmptyName_Witness ==
    \E h \in Handlers :
        /\ Follows(h, "putFailed")
        /\ req[h].key # << >>
        /\ ServedFromCache(h)
        /\ DhtKey(req[h].key) \notin DOMAIN store

\* C11: after any sequence of Get / Add / Expire / Clear on the bounded
\* cache, Length() is at most the capacity.
C11_LengthWithinCapacity == Length(lru) <= CacheSize

\* an Add into a full cache has evicted an entry, and the cache is full
C11_Witness ==
    /\ lruOp.op = "add"
    /\ lruOp.evicted # {}
    /\ Length(lru) = CacheSize

\* an Add of a key the full cache does not hold
AddsToFullCache ==
    /\ lruOp'.op = "add"
    /\ lruOp'.key \notin KeySet(lru)
    /\ Length(lru) = CacheSize

\* C12: an Add of a new key into a full cache evicts exactly one entry, the
\* one whose most recent access (Get hit or Add) is the oldest; every other
\* entry stays and the new key is cached.
C12_EvictsLeastRecentlyAccessed ==
    [][AddsToFullCache =>
            /\ KeySet(lru') = (KeySet(lru) \ {touched[Len(touched)]}) \cup {lruOp'.key}
            /\ lruOp'.evicted = {touched[Len(touched)]}
            /\ Length(lru') = CacheSize]_vars

\* recency of access, not of insertion: the evicted entry is not the one
\* inserted longest ago, which an access had made more recent
C12_Witness ==
    /\ lruOp.op = "add"
    /\ \E k \in CacheKeys : lruOp.evicted = {k} /\ k # lruOp.oldestIn
    /\ lruOp.oldestIn \in KeySet(lru)

\* C13: on a node whose store handle is absent, every introspection
\* accessor returns an empty or zero value and no error.
C13_AccessorsEmptyWhenUninitialized ==
    (acc.fn # "none" /\ acc.uninitialized) =>
        /\ acc.value \in ZeroValues
        /\ acc.err = "nil"

\* the accessors that hold C13: all but GetMode and GetNetworkSize
C13_AccessorsEmptyWhenUninitialized_Others ==
    (acc.fn \notin {"none", "GetMode", "GetNetworkSize"} /\ acc.uninitialized) =>
        /\ acc.value \in ZeroValues
        /\ acc.err = "nil"

C13_Others_Witness ==
    /\ acc.fn = "GetPeerID"
    /\ acc.uninitialized
    /\ acc.value = ""

\* a handler serving on a node that is not initialized has answered
GateClosed(h) == node.kadDHT = "nil" /\ req[h].kind # "idle"

\* C14: while the node is not initialized, AddHandler, LookupHandler,
\* AllPeersHandler and InfoHandler each answer with the "not initialized"
\* error at once, and read no cache, write no cache, call no store.
C14_ReadinessGate ==
    /\ \A h \in Handlers :
        GateClosed(h) =>
            /\ Done(h)
            /\ req[h].status = 500
            /\ req[h].error = NotInitialized
            /\ req[h].cacheReads = 0
            /\ req[h].storeCalls = 0
            /\ req[h].accessorCalls = 0
    /\ node.kadDHT = "nil" => cache = EmptyMap

\* a lookup for a name the store holds has been turned away at the gate
C14_Witness ==
    /\ node.kadDHT = "nil"
    /\ \E h \in Handlers :
        /\ req[h].kind = "lookup"
        /\ req[h].key # << >>
        /\ req[h].error = NotInitialized
        /\ DhtKey(req[h].key) \in DOMAIN store

\* C15: Select returns index 0 and no error for every key and every list
\* of candidates, and the same again when called again.
C15_SelectFirst ==
    \A i \in 1..Len(sResults) :
        /\ sResults[i].index = 0
        /\ sResults[i].err = "nil"
        /\ sResults[i] = sResults[1]

\* called twice with several different candidates under a key of the
\* namespace fn
C15_Witness ==
    /\ Len(sResults) = MaxSelectCalls
    /\ Len(sVals) > 1
    /\ sVals[1] # sVals[Len(sVals)]
    /\ ~SplitKey(vKey).err
    /\ SplitKey(vKey).ns = NamespaceFn

\* handler h takes up a lookup for a name the cache holds
LookupOfCachedName(h) ==
    /\ ~Active(h)
    /\ IsInitialized
    /\ req'[h].kind = "lookup"
    /\ req'[h].key \in DOMAIN cache

\* the lookup is answered in that step with the cached value, and neither
\* the cache nor the store is touched
AnsweredFromCache(h) ==
    /\ req'[h].pc = "done"
    /\ req'[h].status = 200
    /\ req'[h].body = cache[req'[h].key]
    /\ req'[h].storeCalls = 0
    /\ cache' = cache
    /\ store' = store

\* C16: a Resolve for a name the cache holds returns the cached value at
\* once, with no GetValue and no PutValue, and leaves the cache as it is,
\* whatever the store holds for the name.
C16_CachedNameResolvedLocally ==
    [][\A h \in Handlers : LookupOfCachedName(h) => AnsweredFromCache(h)]_vars

\* C16 for the names LookupHandler takes: every name but ""
C16_CachedNameResolvedLocally_NonEmptyName ==
    [][\A h \in Handlers :
            (LookupOfCachedName(h) /\ req'[h].key # << >>)
                => AnsweredFromCache(h)]_vars

\* a lookup answered from the cache while the store holds another value
C16_NonEmptyName_Witness ==
    \E h \in LookupReqs :
        /\ Done(h)
        /\ req[h].key # << >>
        /\ req[h].cacheReads = 1
        /\ req[h].storeCalls = 0
        /\ req[h].status = 200
        /\ DhtKey(req[h].key) \in DOMAIN store
        /\ store[DhtKey(req[h].key)] # cache[req[h].key]

\* C17: no failure inside the observability loops ends the node: when
\* eventLoop's subscription to the event bus fails, the failure is only
\* logged, and main and statsLoop go on.
C17_SubscribeFailureNotFatal ==
    sub.state = "failed" =>
        /\ mainPc # "crashed"
        /\ loops.event # "panicked"

\* the context of a node whose loops have been started is cancelled
NodeScopeCancelled == ctx.node /\ loops.event # "none" /\ loops.stats # "none"

BothLoopsReturned ==
    /\ loops.event = "returned"
    /\ loops.stats = "returned"
    /\ sub.state = "closed"

\* C18: once the node's context is cancelled, eventLoop and statsLoop each
\* eventually return, eventLoop with its subscription closed.
C18_LoopsReturnAfterCancel == NodeScopeCancelled ~> BothLoopsReturned

\* C18 for as long as the process lives
C18_LoopsReturnAfterCancel_WhileProcessLives ==
    NodeScopeCancelled ~> (BothLoopsReturned \/ ProcessGone)

\* C18, the loops that have returned: eventLoop has closed its
\* subscription and dispatches no further event, statsLoop logs no further
\* sample
C18_ReturnedLoopsStayQuiet ==
    [][/\ loops.event = "returned" =>
            (sub.state = "closed" /\ sub' = sub /\ loops'.event = "returned")
       /\ loops.stats = "returned" =>
            (ticks' = ticks /\ loops'.stats = "returned")]_vars

\* identity, network host, local discovery, store, store bootstrap
StartupOrder == <<"loadKey", "newHost", "mdns", "newDHT", "bootstrap">>

IsPrefix(s, t) == Len(s) <= Len(t) /\ s = SubSeq(t, 1, Len(s))

StartupComplete == startup.done = StartupOrder /\ ~startup.failed

LoopsStarted == loops.event # "none" \/ loops.stats # "none"

\* the steps taken so far are the first steps of the order; a node value,
\* the running state and the loops exist only after all five succeeded; a
\* failed step leaves no node value, no loops, and not the running state
StartupInOrder ==
    /\ IsPrefix(startup.done, StartupOrder)
    /\ Lifecycle = "Uninitialized" => startup.done = << >>
    /\ Lifecycle = "Starting" => ~startup.failed
    /\ (node # NoNode \/ LoopsStarted \/ Lifecycle = "Running") => StartupComplete
    /\ startup.failed =>
            /\ node = NoNode
            /\ ~LoopsStarted
            /\ Lifecycle = "Stopped"

\* C19: startup goes Uninitialized -> Starting -> Running through the five
\* steps in their order; a failure at any step ends it with no node value
\* and without Running; the loops are started only after the bootstrap.
C19_StartupLifecycle ==
    [][/\ StartupInOrder'
       /\ Lifecycle = "Uninitialized" => Lifecycle' \in {"Uninitialized", "Starting"}
       /\ Lifecycle = "Starting" => Lifecycle' \in {"Starting", "Running", "Stopped"}
       /\ (Lifecycle = "Starting" /\ Lifecycle' = "Running") =>
                (StartupComplete /\ ~LoopsStarted /\ LoopsStarted')
       /\ (Lifecycle = "Starting" /\ Lifecycle' = "Stopped") => startup'.failed]_vars

\* the store was built and its bootstrap failed: the process has ended
\* without a node
C19_Witness ==
    /\ startup.failed
    /\ startup.done = SubSeq(StartupOrder, 1, 4)
    /\ node = NoNode
    /\ mainPc = "exited"

\* C20: Shutdown() closes the network handle first and the store second,
\* the store also when closing the network handle failed, and hands no
\* close error to its caller: at most it logs one.
C20_ShutdownClosesBothInOrder ==
    /\ IsPrefix(shut.calls, <<"host", "dht">>)
    /\ ~shut.propagated
    /\ shut.logged \subseteq shut.failed
    /\ shut.returned => shut.calls = <<"host", "dht">>
    /\ (shut.calls # << >> /\ mainPc \in {"cancel", "return", "exited"}) => shut.returned

\* both closes failed, Shutdown has returned
C20_Witness ==
    /\ shut.returned
    /\ shut.failed = {"host", "dht"}
    /\ shut.calls = <<"host", "dht">>
    /\ node.hostClosed /\ node.dhtClosed

\* at most one goroutine holds the write lock, and none reads meanwhile
MutexHolds ==
    /\ Cardinality(mu.writer) <= 1
    /\ mu.writer # {} => mu.readers = {}

\* the step writes the cache map: exactly one goroutine holds the lock
CacheWriteUnderLock ==
    cache' # cache => Cardinality(mu.writer) = 1 /\ mu.readers = {}

\* the step reads the cache map for handler h: h holds the read lock and
\* no goroutine the write lock
CacheReadUnderRLock ==
    \A h \in Handlers :
        req'[h].cacheReads > req[h].cacheReads =>
            h \in mu.readers /\ mu.writer = {}

\* the lookups of name n that missed the cache and read a value from the store
StoreReads(n) ==
    {h \in LookupReqs : /\ req[h].key = n
                        /\ req[h].storeCalls = 1
                        /\ req[h].callErr = "nil"
                        /\ ~KeyNotFound(req[h].got)}

\* every handler has served a lookup of n, and all have returned
OnlyResolvesOf(n) ==
    \A h \in Handlers : h \in LookupReqs /\ req[h].key = n /\ Done(h)

ResolvesFillFromStore ==
    \A n \in ConcNames :
        OnlyResolvesOf(n) /\ StoreReads(n) # {} =>
            /\ n \in DOMAIN cache
            /\ cache[n] \in {req[h].got : h \in StoreReads(n)}

\* C21: concurrent LookupHandler calls for one name absent from the cache
\* may each call GetValue; every read of the cache map happens under the
\* read lock and every write under the write lock, which excludes all other
\* holders; once all the calls have returned, the cache holds for the name
\* a value that one of their store reads returned
C21_ConcurrentResolves ==
    [][/\ MutexHolds'
       /\ CacheWriteUnderLock
       /\ CacheReadUnderRLock
       /\ ResolvesFillFromStore']_vars

\* two lookups of one name both missed the cache, both read the store, and
\* both have filled the cache and returned
C21_Witness ==
    \E n \in ConcNames :
        /\ OnlyResolvesOf(n)
        /\ StoreReads(n) = Handlers
        /\ \A h \in Handlers : req[h].status = 200
        /\ n \in DOMAIN cache

\* the handler goroutines that run in this step
Running == ran' \ ran

NotConnectedEvent(e) ==
    e.kind = "PeerConnectednessChanged" /\ e.conn = "NotConnected"

\* C22: a handler goroutine removes a peer from the peer store exactly when
\* its event is a connectedness change to NotConnected, and the peer it
\* removes is the event's; a handler of any other kind or connectedness
\* leaves the peer store alone, and a kind without a case is only logged
C22_RemovalOnlyOnNotConnected ==
    [][/\ \A i \in Running :
            /\ NotConnectedEvent(events[i]) =>
                    peerstore' = peerstore \ {events[i].peer}
            /\ ~NotConnectedEvent(events[i]) => peerstore' = peerstore
            /\ events[i].kind \in UnknownKinds =>
                    evLog' = evLog \cup {<<i, "unknown event">>}
       /\ \A p \in peerstore \ peerstore' :
            \E i \in Running :
                NotConnectedEvent(events[i]) /\ events[i].peer = p]_vars

\* the handler of a NotConnected event has removed its peer, and the
\* handler of a Connected event has left its peer in the store
C22_Witness ==
    \E i, j \in ran :
        /\ NotConnectedEvent(events[i])
        /\ events[i].peer \notin peerstore
        /\ events[j] \in {ConnectednessChanged(p, "Connected") : p \in Peers}
        /\ events[j].peer \in peerstore

\* the last connectedness event received for peer p, 0 when there is none
LatestEvent(p) ==
    LET S == {i \in 1..Len(events) :
                events[i].kind = "PeerConnectednessChanged" /\ events[i].peer = p}
    IN IF S = {} THEN 0 ELSE CHOOSE i \in S : \A j \in S : j <= i

\* C27: the handler of a NotConnected event never removes its peer from the
\* peer store once a later Connected event for that peer has been emitted:
\* no peer is removed while its latest connectedness event is Connected
C27_NoRemovalWhileConnected ==
    [][\A i \in Running :
          NotConnectedEvent(events[i]) =>
              /\ events[LatestEvent(events[i].peer)].conn # "Connected"
              /\ ~\E j \in (i + 1)..Len(events) :
                      events[j] = ConnectednessChanged(events[i].peer, "Connected")]_vars

\* the calls of loadOrGenerateKey so far
KeyCalls == {keyLog[i] : i \in 1..Len(keyLog)}

C29_GeneratedKeyPersisted ==
    \A i \in 1..Len(keyLog) :
        keyLog[i].generated /\ keyLog[i].err = "nil" =>
            /\ keyLog[i].after = keyLog[i].key
            /\ \A j \in (i + 1)..Len(keyLog) : keyLog[j].key = keyLog[i].key

\* a lookup that missed the cache and to which GetValue returned a
\* non-empty value and no error
ResolvedFromStore(h) ==
    /\ h \in LookupReqs
    /\ Done(h)
    /\ req[h].storeCalls = 1
    /\ req[h].callErr = "nil"
    /\ req[h].got # << >>

\* C24: a LookupHandler call that misses the cache and gets a non-empty
\* value v from GetValue without an error stores name -> v in the cache and
\* returns v; the next Resolve of the name, with no write in between, is
\* answered from the cache with v and without a store call
C24_ResolveFillsCache ==
    \A h \in SeqHandlers :
        /\ ResolvedFromStore(h) =>
                /\ req[h].status = 200
                /\ req[h].body = req[h].got
                /\ Holds(cache, req[h].key, req[h].got)
        /\ Follows(h, "resolved") => ServedFromCache(h)

\* a Resolve that follows a Resolve of the same name that was answered by
\* the store, and is itself answered by the cache
C24_Witness ==
    \E h \in SeqHandlers :
        /\ Follows(h, "resolved")
        /\ ServedFromCache(h)
        /\ req[h].cacheReads = 1
        /\ req[h].body # << >>

\* the step in which GetValue returns an error to the lookup of handler h
GetValueFails(h) ==
    /\ req'[h].kind = "lookup"
    /\ req[h].callErr # "err"
    /\ req'[h].callErr = "err"

\* C25: when GetValue returns an error to a LookupHandler call that missed
\* the cache, the call ends with an error outcome, which is neither "Key
\* not found" nor a value, and the cache is left as it was
C25_StoreErrorReported ==
    [][\A h \in SeqHandlers :
          GetValueFails(h) =>
              /\ Done(h)'
              /\ req'[h].status = 500
              /\ req'[h].error = "Failed to retrieve value from DHT"
              /\ req'[h].body = << >>
              /\ cache' = cache]_vars

\* a lookup of a name the cache does not hold has ended with the error of
\* GetValue
C25_Witness ==
    \E h \in LookupReqs :
        /\ Done(h)
        /\ req[h].storeCalls = 1
        /\ req[h].callErr = "err"
        /\ req[h].status = 500
        /\ req[h].key \notin DOMAIN cache

InShutdown ==
    \/ mainPc \in {"closeHost", "closeDHT", "cancel", "return"}
    \/ shut.calls # << >>

\* C28: after the interrupt signal StartHTTPServer returns only when
\* server.Shutdown has returned, that is when no handler is at work any
\* more; so Shutdown() never runs while AddHandler or LookupHandler is in
\* a cache or store operation, and the node's scope is cancelled only
\* after Shutdown() has returned
C28_ShutdownAfterHandlers ==
    /\ InShutdown => \A h \in Handlers : ~Active(h)
    /\ ctx.node => shut.returned

\* the signal came while a handler was waiting for the store; the handler
\* has ended its request, Shutdown() has returned and the node's scope is
\* cancelled
C28_Witness ==
    \E h \in shut.inFlight :
        /\ Done(h)
        /\ req[h].storeCalls > 0
        /\ shut.returned
        /\ ctx.node

\* the name of the request handler h has handed to the store
StoreName(h) == IF h \in AddReqs THEN req[h].cur.name ELSE req[h].key

\* handler h has computed the store key of the name it is at
CalledStore(h) == req[h].dhtKey # << >> /\ req[h].pc # "putValue"

\* C30: every key AddHandler and LookupHandler hand to the store is the
\* request's name behind "/fn/": it splits into the namespace "fn" and the
\* name, so the validator never rejects a Publish for its namespace or its
\* record type; the cache is keyed by the bare name; and a name has one
\* store key, the same for writes and reads
C30_StoreKeysInNamespaceFn ==
    /\ \A h \in SeqHandlers :
          CalledStore(h) =>
            /\ req[h].dhtKey = <<Slash>> \o NamespaceFn \o <<Slash>> \o StoreName(h)
            /\ ~SplitKey(req[h].dhtKey).err
            /\ SplitKey(req[h].dhtKey).ns = NamespaceFn
            /\ SplitKey(req[h].dhtKey).key = StoreName(h)
            /\ Validate(req[h].dhtKey, req[h].cur.value)
                    \notin {ErrNamespace, ErrInvalidRecordType}
    /\ \A k \in DOMAIN store :
          SplitKey(k).ns = NamespaceFn /\ SplitKey(k).key \in PathNames
    /\ DOMAIN cache \subseteq PathNames
    /\ \A h \in SeqHandlers :
          /\ Follows(h, "added") /\ req[h].storeCalls = 0 =>
                req[h].key \in DOMAIN cache
          /\ ResolvedFromStore(h) =>
                /\ req[h].key \in DOMAIN cache
                /\ req[h].dhtKey \in DOMAIN store
                /\ store[req[h].dhtKey] = req[h].got

\* the name "/x/a" was published, a lookup of it was then answered by the
\* cache, and the store holds the record under "/fn//x/a"
C30_Witness ==
    \E h \in SeqHandlers :
        /\ Follows(h, "added")
        /\ ServedFromCache(h)
        /\ req[h].key = <<Slash, 120, Slash, 97>>
        /\ Holds(store, <<Slash>> \o NamespaceFn \o <<Slash>> \o req[h].key,
                 req[h].body)

====
